---- MODULE Spec2Model ----
(***************************************************************************)
(* RustSBI for the HiFive Unmatched: the multi-hart boot sequence of       *)
(* rust_main, the pause barrier, delegate_interrupt_exception and the      *)
(* trap/resume loop of execute_supervisor.                                 *)
(***************************************************************************)
EXTENDS Integers, Naturals, Sequences, FiniteSets, TLC

(* ------------------------------------------------------------------ *)
(* Bounds of the model and constants of the program                    *)
(* ------------------------------------------------------------------ *)

\* Width of the machine word in the model (usize is 64 bits on the target).
XLEN == 4

\* Largest hart id the boot descriptor's boot_hart field takes in the model.
MaxBootHart == 5

\* "5 harts" (SBI_STACK_SIZE): hart ids are 0..4.
NHarts == 5

\* for target_hart_id in 1..=4
FirstTarget == 1
LastTarget == 4

\* ctx.mepc.wrapping_add(4)
EcallLen == 4

\* Calls of delegate_interrupt_exception on one hart when it is checked alone.
MaxDelegateCalls == 2

\* const FW_DYNAMIC_INFO_MAGIC_VALUE: usize = 0x4942534f
FW_DYNAMIC_INFO_MAGIC_VALUE == 1229083471

\* const PER_HART_STACK_SIZE: usize = 4 * 4096
PER_HART_STACK_SIZE == 4 * 4096

Harts == 0..(NHarts - 1)

\* const SBI_STACK_SIZE: usize = 5 * PER_HART_STACK_SIZE
SBI_STACK_SIZE == NHarts * PER_HART_STACK_SIZE

\* Addresses the linker gives SBI_STACK in the model; addresses are kept
\* unreduced, the stack region lies in RAM and does not wrap.
StackBases == {0, 16, 3 * 4096 + 8, 5 * PER_HART_STACK_SIZE, 2 ^ 24}

\* The address of SBI_STACK in the runs that start at rust_main.
LinkedStack == 2 ^ 24

\* Values of the magic field the loader passes in the model.
Magics == {FW_DYNAMIC_INFO_MAGIC_VALUE, 0}

WordModulus == 2 ^ XLEN
MaxWord == WordModulus - 1
Word == 0..MaxWord

\* Values of next_addr the loader passes in the model.
NextAddrs == {WordModulus \div 2}

VARIABLES
    fw_dynamic_info,  \* the boot descriptor: [magic, boot_hart, next_addr]
    stack,            \* address of SBI_STACK
    sp,               \* per hart: the stack pointer entry hands to rust_main
    clint_writes,     \* writes to the CLINT flags so far: [by, target, op, via]
    sent_since_clear, \* per hart: send_soft to it executed since it last began a pause call
    pc,               \* per hart: the statement it executes next
    target_hart_id,   \* per hart: loop variable of the notification loops
    msip,             \* CLINT: software-interrupt-pending flag per hart
    csr,              \* per hart: [mideleg, medeleg, mie, mip] as sets of bit names
    prev_msoft,       \* per hart: local of pause
    pause_calls,      \* per hart: number of pause calls begun
    pause_returns,    \* per hart: number of pause calls returned
    entry_msoft,      \* per hart: mie.msoft when the current pause call began
    exit_msoft,       \* per hart: mie.msoft when the last pause call returned
    init_log,         \* one-time initialisation steps performed, in order
    send_count,       \* send_count[s][t]: clint.send_soft(t) executed by rust_main on hart s
    dt_result,        \* result of parse_device_tree on the boot hart
    dt_warning,       \* the warning of a failed parse_device_tree was printed
    supervisor_mepc,  \* per hart: first argument of execute_supervisor
    delegate_calls,   \* per hart: calls of delegate_interrupt_exception
    ctx,              \* per hart: the Supervisor Context [a0..a7, mepc]
    trap,             \* per hart: what the last resume returned
    trap_ctx,         \* per hart: the Supervisor Context when the last trap was taken
    ecalls,           \* per hart: rustsbi::ecall invocations since the last resume
    sbi_ret           \* per hart: what the last rustsbi::ecall returned

bootVars == <<fw_dynamic_info, dt_warning, stack, sp, clint_writes, sent_since_clear, pc, target_hart_id, msip, csr, prev_msoft,
              pause_calls, pause_returns, entry_msoft, exit_msoft, init_log, send_count,
              dt_result, supervisor_mepc, delegate_calls>>
trapVars == <<ctx, trap, trap_ctx, ecalls, sbi_ret>>
vars == <<fw_dynamic_info, dt_warning, stack, sp, clint_writes, sent_since_clear, pc, target_hart_id, msip, csr, prev_msoft,
          pause_calls, pause_returns, entry_msoft, exit_msoft, init_log, send_count,
          dt_result, supervisor_mepc, delegate_calls, ctx, trap, trap_ctx,
          ecalls, sbi_ret>>

(* ------------------------------------------------------------------ *)
(* CLINT and CSR helpers                                               *)
(* ------------------------------------------------------------------ *)

\* clint.send_soft(t): assert hart t's software-interrupt-pending flag.
send_soft(m, t) == [m EXCEPT ![t] = TRUE]

\* clint.clear_soft(t): clear hart t's software-interrupt-pending flag.
clear_soft(m, t) == [m EXCEPT ![t] = FALSE]

\* One write to the CLINT's software-interrupt flags by rust_main or pause:
\* hart `by` sets or clears the flag of hart `target`.
ClintWrite(by, target, op) ==
    [by |-> by, target |-> target, op |-> op, via |-> "boot"]

\* One clint.send_soft(target) the SBI dispatcher executes on hart `by` for an
\* IPI its supervisor requested.
EcallWrite(by, target) ==
    [by |-> by, target |-> target, op |-> "set", via |-> "ecall"]

\* mie::read().msoft()
mie_msoft(h) == "msoft" \in csr[h].mie

\* mip::read().msoft(): the MSIP bit of mip mirrors the CLINT flag of the hart.
mip_msoft(h) == msip[h]

MidelegBits == {"sext", "stimer", "ssoft", "uext", "utimer", "usoft"}

MedelegBits == {"instruction_misaligned", "breakpoint", "user_env_call",
                "instruction_page_fault", "load_page_fault", "store_page_fault",
                "instruction_fault", "load_fault", "store_fault"}

MieBits == {"mext", "msoft"}

\* delegate_interrupt_exception with mie::set_mtimer added.
delegate_interrupt_exception_mtimer(c) ==
    [c EXCEPT !.mideleg = @ \cup MidelegBits,
              !.medeleg = @ \cup MedelegBits,
              !.mie = @ \cup MieBits \cup {"mtimer"}]

\* delegate_interrupt_exception: the CSR state of a hart after the call.
delegate_interrupt_exception(c) ==
    [c EXCEPT !.mideleg = @ \cup MidelegBits,
              !.medeleg = @ \cup MedelegBits,
              !.mie = @ \cup MieBits]

ResetCsr(m) == [mideleg |-> {}, medeleg |-> {}, mie |-> m, mip |-> {}]

(* ------------------------------------------------------------------ *)
(* entry: the per-hart stack pointer                                   *)
(* ------------------------------------------------------------------ *)

\* addi t2, t1, 2
entry_t2_plus_two(t1) == t1 + 2

\* csrr t1, mhartid; addi t2, t1, 1
entry_t2(t1) == t1 + 1

\* 1: add sp, sp, t0; addi t2, t2, -1; bnez t2, 1b
RECURSIVE entry_add_loop(_, _, _)
entry_add_loop(s, t0, t2) ==
    LET s1 == s + t0
        t21 == t2 - 1
    IN  IF t21 # 0 THEN entry_add_loop(s1, t0, t21) ELSE s1

\* la sp, {stack}; li t0, {per_hart_stack_size}; ...; the value of sp at
\* call {rust_main} on the hart whose mhartid is hartid
entry_sp(base, hartid) ==
    entry_add_loop(base, PER_HART_STACK_SIZE, entry_t2(hartid))

\* entry on hart h, from reset to call {rust_main}
Entry(h) ==
    /\ pc[h] = "entry"
    /\ sp' = [sp EXCEPT ![h] = entry_sp(stack, h)]
    /\ pc' = [pc EXCEPT ![h] = "main"]
    /\ UNCHANGED <<fw_dynamic_info, dt_warning, stack, clint_writes, sent_since_clear,
                   target_hart_id, msip, csr, prev_msoft, pause_calls,
                   pause_returns, entry_msoft, exit_msoft, init_log, send_count, dt_result,
                   supervisor_mepc, delegate_calls>>
    /\ UNCHANGED trapVars

(* ------------------------------------------------------------------ *)
(* rust_main                                                           *)
(* ------------------------------------------------------------------ *)

\* if hart_id <= boot_hart
IsBootHartLeq(h) == h <= fw_dynamic_info.boot_hart

\* if hart_id == boot_hart
IsBootHart(h) == h = fw_dynamic_info.boot_hart

LogInit(h, step) == init_log' = Append(init_log, [hart |-> h, step |-> step])

\* init_bss() followed at once by the notification loop
InitBssThenNotify(h) ==
    /\ pc[h] = "main"
    /\ IsBootHart(h)
    /\ LogInit(h, "init_bss")
    /\ target_hart_id' = [target_hart_id EXCEPT ![h] = FirstTarget]
    /\ pc' = [pc EXCEPT ![h] = "notify1"]
    /\ UNCHANGED <<fw_dynamic_info, dt_warning, stack, sp, clint_writes, sent_since_clear, msip, csr, prev_msoft,
                   pause_calls, pause_returns, entry_msoft, exit_msoft, send_count,
                   dt_result, supervisor_mepc, delegate_calls>>
    /\ UNCHANGED trapVars

\* init_bss()
InitBss(h) ==
    /\ pc[h] = "main"
    /\ IsBootHart(h)
    /\ LogInit(h, "init_bss")
    /\ pc' = [pc EXCEPT ![h] = "init_stdout"]
    /\ UNCHANGED <<fw_dynamic_info, dt_warning, stack, sp, clint_writes, sent_since_clear, target_hart_id, msip, csr, prev_msoft,
                   pause_calls, pause_returns, entry_msoft, exit_msoft, send_count,
                   dt_result, supervisor_mepc, delegate_calls>>
    /\ UNCHANGED trapVars

\* crate::console::init_stdout(uart), then the first loop starts at 1
InitStdout(h) ==
    /\ pc[h] = "init_stdout"
    /\ LogInit(h, "init_stdout")
    /\ target_hart_id' = [target_hart_id EXCEPT ![h] = FirstTarget]
    /\ pc' = [pc EXCEPT ![h] = "notify1"]
    /\ UNCHANGED <<fw_dynamic_info, dt_warning, stack, sp, clint_writes, sent_since_clear, msip, csr, prev_msoft,
                   pause_calls, pause_returns, entry_msoft, exit_msoft, send_count,
                   dt_result, supervisor_mepc, delegate_calls>>
    /\ UNCHANGED trapVars

\* the loop body with the test target_hart_id != boot_hart left out
NotifyIterationAll(h, here, next) ==
    /\ pc[h] = here
    /\ LET t == target_hart_id[h] IN
        /\ msip' = send_soft(msip, t)
        /\ send_count' = [send_count EXCEPT ![h][t] = @ + 1]
        /\ clint_writes' = clint_writes \cup {ClintWrite(h, t, "set")}
        /\ sent_since_clear' = [sent_since_clear EXCEPT ![t] = TRUE]
        /\ IF t = LastTarget
              THEN /\ pc' = [pc EXCEPT ![h] = next]
                   /\ UNCHANGED target_hart_id
              ELSE /\ target_hart_id' = [target_hart_id EXCEPT ![h] = t + 1]
                   /\ UNCHANGED pc
    /\ UNCHANGED <<fw_dynamic_info, dt_warning, stack, sp, csr, prev_msoft,
                   pause_calls, pause_returns, entry_msoft, exit_msoft, init_log, dt_result,
                   supervisor_mepc, delegate_calls>>
    /\ UNCHANGED trapVars

\* one iteration of: for target_hart_id in 1..=4 { if target_hart_id != boot_hart
\* { clint.send_soft(target_hart_id) } }
NotifyIteration(h, here, next) ==
    /\ pc[h] = here
    /\ LET t == target_hart_id[h] IN
        /\ IF t # fw_dynamic_info.boot_hart
              THEN /\ msip' = send_soft(msip, t)
                   /\ send_count' = [send_count EXCEPT ![h][t] = @ + 1]
                   /\ clint_writes' = clint_writes \cup {ClintWrite(h, t, "set")}
                   /\ sent_since_clear' = [sent_since_clear EXCEPT ![t] = TRUE]
              ELSE UNCHANGED <<msip, send_count, clint_writes, sent_since_clear>>
        /\ IF t = LastTarget
              THEN /\ pc' = [pc EXCEPT ![h] = next]
                   /\ UNCHANGED target_hart_id
              ELSE /\ target_hart_id' = [target_hart_id EXCEPT ![h] = t + 1]
                   /\ UNCHANGED pc
    /\ UNCHANGED <<fw_dynamic_info, dt_warning, stack, sp, csr, prev_msoft,
                   pause_calls, pause_returns, entry_msoft, exit_msoft, init_log, dt_result,
                   supervisor_mepc, delegate_calls>>
    /\ UNCHANGED trapVars

\* the early notification loop; the opaque fallback and early_trap::init(hart_id)
\* that follow it touch only the hart's own trap vector
Notify1(h) == NotifyIteration(h, "notify1", "init_heap")

\* init_heap()
InitHeap(h) ==
    /\ pc[h] = "init_heap"
    /\ LogInit(h, "init_heap")
    /\ pc' = [pc EXCEPT ![h] = "init_rustsbi_stdio"]
    /\ UNCHANGED <<fw_dynamic_info, dt_warning, stack, sp, clint_writes, sent_since_clear, target_hart_id, msip, csr, prev_msoft,
                   pause_calls, pause_returns, entry_msoft, exit_msoft, send_count,
                   dt_result, supervisor_mepc, delegate_calls>>
    /\ UNCHANGED trapVars

\* init_rustsbi_stdio(uart)
InitRustsbiStdio(h) ==
    /\ pc[h] = "init_rustsbi_stdio"
    /\ LogInit(h, "init_rustsbi_stdio")
    /\ pc' = [pc EXCEPT ![h] = "init_rustsbi_clint"]
    /\ UNCHANGED <<fw_dynamic_info, dt_warning, stack, sp, clint_writes, sent_since_clear, target_hart_id, msip, csr, prev_msoft,
                   pause_calls, pause_returns, entry_msoft, exit_msoft, send_count,
                   dt_result, supervisor_mepc, delegate_calls>>
    /\ UNCHANGED trapVars

\* init_rustsbi_clint(clint): rustsbi::init_ipi and rustsbi::init_timer
InitRustsbiClint(h) ==
    /\ pc[h] = "init_rustsbi_clint"
    /\ LogInit(h, "init_rustsbi_clint")
    /\ pc' = [pc EXCEPT ![h] = "parse_device_tree"]
    /\ UNCHANGED <<fw_dynamic_info, dt_warning, stack, sp, clint_writes, sent_since_clear, target_hart_id, msip, csr, prev_msoft,
                   pause_calls, pause_returns, entry_msoft, exit_msoft, send_count,
                   dt_result, supervisor_mepc, delegate_calls>>
    /\ UNCHANGED trapVars

\* parse_device_tree(opaque).unwrap(): a failed parse panics the boot hart
ParseDeviceTreeUnwrap(h) ==
    /\ pc[h] = "parse_device_tree"
    /\ LogInit(h, "parse_device_tree")
    /\ \E r \in {"Ok", "Err"} :
        /\ dt_result' = r
        /\ pc' = [pc EXCEPT ![h] = IF r = "Err" THEN "panicked" ELSE "delegate"]
    /\ UNCHANGED <<fw_dynamic_info, dt_warning, stack, sp, clint_writes, sent_since_clear, target_hart_id, msip, csr, prev_msoft,
                   pause_calls, pause_returns, entry_msoft, exit_msoft, send_count,
                   supervisor_mepc, delegate_calls>>
    /\ UNCHANGED trapVars

\* if let Err(e) = parse_device_tree(opaque) { println!(warning) }
ParseDeviceTree(h) ==
    /\ pc[h] = "parse_device_tree"
    /\ LogInit(h, "parse_device_tree")
    /\ \E r \in {"Ok", "Err"} :
        /\ dt_result' = r
        /\ dt_warning' = (r = "Err")
    /\ pc' = [pc EXCEPT ![h] = "delegate"]
    /\ UNCHANGED <<fw_dynamic_info, stack, sp, clint_writes, sent_since_clear, target_hart_id, msip, csr, prev_msoft,
                   pause_calls, pause_returns, entry_msoft, exit_msoft, send_count,
                   supervisor_mepc, delegate_calls>>
    /\ UNCHANGED trapVars

\* delegate_interrupt_exception() on the boot hart, then the second loop starts at 1
BootDelegate(h) ==
    /\ pc[h] = "delegate"
    /\ LogInit(h, "delegate")
    /\ csr' = [csr EXCEPT ![h] = delegate_interrupt_exception(csr[h])]
    /\ delegate_calls' = [delegate_calls EXCEPT ![h] = @ + 1]
    /\ target_hart_id' = [target_hart_id EXCEPT ![h] = FirstTarget]
    /\ pc' = [pc EXCEPT ![h] = "notify2"]
    /\ UNCHANGED <<fw_dynamic_info, dt_warning, stack, sp, clint_writes, sent_since_clear, msip, prev_msoft,
                   pause_calls, pause_returns, entry_msoft, exit_msoft, send_count,
                   dt_result, supervisor_mepc>>
    /\ UNCHANGED trapVars

\* the notification loop after full initialisation
Notify2(h) == NotifyIteration(h, "notify2", "runtime_init")

(* ------------------------------------------------------------------ *)
(* pause                                                               *)
(* ------------------------------------------------------------------ *)

\* the hart id pause uses taken to be that of hart 0
pause_hartid_zero(h) == 0

\* let hartid = mhartid::read()
pause_hartid(h) == h

\* mie::clear_msoft() executed whatever prev_msoft is
pause_restore_always_clear(mie, prev) == mie \ {"msoft"}

\* if !prev_msoft { mie::clear_msoft() }
pause_restore(mie, prev) == IF ~prev THEN mie \ {"msoft"} ELSE mie

NoContext == [a0 |-> 0, a1 |-> 0, a2 |-> 0, a3 |-> 0, a4 |-> 0, a5 |-> 0,
              a6 |-> 0, a7 |-> 0, mepc |-> 0]

\* Runtime::new_sbi_supervisor(supervisor_mepc, hart_id, opaque): the context
\* starts at the given program counter.
new_sbi_supervisor(mepc, hart_id) == [NoContext EXCEPT !.mepc = mepc]

\* mie::set_msoft(): pause starts listening for software interrupts
pause_listen(c) == [c EXCEPT !.mie = @ \cup {"msoft"}]

\* if hart_id != 0 { delegate_interrupt_exception() } on a follower
follower_delegate(c, hart_id) ==
    IF hart_id # 0 THEN delegate_interrupt_exception(c) ELSE c

\* A follower's step runs from one access to a CLINT flag, the only state a
\* follower shares with another hart, up to the point where it next waits.

\* pause entered without clint.clear_soft(hartid)
PauseClearKeepFlag(h) ==
    /\ pc[h] = "main"
    /\ ~IsBootHart(h)
    /\ pause_calls' = [pause_calls EXCEPT ![h] = @ + 1]
    /\ entry_msoft' = [entry_msoft EXCEPT ![h] = mie_msoft(h)]
    /\ sent_since_clear' = [sent_since_clear EXCEPT ![pause_hartid(h)] = FALSE]
    /\ prev_msoft' = [prev_msoft EXCEPT ![h] = mie_msoft(h)]
    /\ csr' = [csr EXCEPT ![h] = pause_listen(@)]
    /\ pc' = [pc EXCEPT ![h] = "pause_wfi"]
    /\ UNCHANGED <<fw_dynamic_info, dt_warning, stack, sp, clint_writes, target_hart_id, msip,
                   pause_returns, exit_msoft, init_log, send_count,
                   dt_result, supervisor_mepc, delegate_calls>>
    /\ UNCHANGED trapVars

\* The first pause, entered from rust_main, up to its wait loop:
\* let hartid = mhartid::read(); clint.clear_soft(hartid); mip::clear_msoft();
\* let prev_msoft = mie::read().msoft(); mie::set_msoft().
\* The MSIP bit of mip is a read-only mirror of the CLINT flag, which
\* clint.clear_soft has just cleared: the CSR write changes nothing.
PauseClear(h) ==
    /\ pc[h] = "main"
    /\ ~IsBootHart(h)
    /\ pause_calls' = [pause_calls EXCEPT ![h] = @ + 1]
    /\ entry_msoft' = [entry_msoft EXCEPT ![h] = mie_msoft(h)]
    /\ msip' = clear_soft(msip, pause_hartid(h))
    /\ clint_writes' = clint_writes \cup {ClintWrite(h, pause_hartid(h), "clear")}
    /\ sent_since_clear' = [sent_since_clear EXCEPT ![pause_hartid(h)] = FALSE]
    /\ prev_msoft' = [prev_msoft EXCEPT ![h] = mie_msoft(h)]
    /\ csr' = [csr EXCEPT ![h] = pause_listen(@)]
    /\ pc' = [pc EXCEPT ![h] = "pause_wfi"]
    /\ UNCHANGED <<fw_dynamic_info, dt_warning, stack, sp, target_hart_id,
                   pause_returns, exit_msoft, init_log, send_count, dt_result,
                   supervisor_mepc, delegate_calls>>
    /\ UNCHANGED trapVars

\* loop { wfi(); if mip::read().msoft() { break } }: one iteration
PauseWfi(h) ==
    /\ pc[h] = "pause_wfi"
    /\ pc' = [pc EXCEPT ![h] = IF mip_msoft(h) THEN "pause_exit" ELSE "pause_wfi"]
    /\ UNCHANGED <<fw_dynamic_info, dt_warning, stack, sp, clint_writes, sent_since_clear, target_hart_id, msip, csr, prev_msoft,
                   pause_calls, pause_returns, entry_msoft, exit_msoft, init_log, send_count,
                   dt_result, supervisor_mepc, delegate_calls>>
    /\ UNCHANGED trapVars

\* pause left for execute_supervisor already after the first call
PauseExitOnce(h) ==
    /\ pc[h] = "pause_exit"
    /\ LET returned == [csr[h] EXCEPT !.mie = pause_restore(@, prev_msoft[h])] IN
        /\ exit_msoft' = [exit_msoft EXCEPT ![h] = "msoft" \in returned.mie]
        /\ csr' = [csr EXCEPT ![h] = returned]
    /\ msip' = clear_soft(msip, pause_hartid(h))
    /\ clint_writes' = clint_writes \cup {ClintWrite(h, pause_hartid(h), "clear")}
    /\ pause_returns' = [pause_returns EXCEPT ![h] = @ + 1]
    /\ supervisor_mepc' = [supervisor_mepc EXCEPT ![h] = fw_dynamic_info.next_addr]
    /\ ctx' = [ctx EXCEPT ![h] = new_sbi_supervisor(fw_dynamic_info.next_addr, h)]
    /\ pc' = [pc EXCEPT ![h] = "resume"]
    /\ UNCHANGED <<fw_dynamic_info, dt_warning, stack, sp, sent_since_clear, target_hart_id, prev_msoft,
                   pause_calls, entry_msoft, init_log, send_count, dt_result,
                   delegate_calls>>
    /\ UNCHANGED <<trap, trap_ctx, ecalls, sbi_ret>>

\* The wait loop left: if !prev_msoft { mie::clear_msoft() };
\* clint.clear_soft(hartid); return, followed by what the follower executes in
\* rust_main until it next waits. After the first call: the opaque fallback and
\* early_trap::init(hart_id), which touch only its own trap vector,
\* if hart_id != 0 { delegate_interrupt_exception() } and the second pause up
\* to its wait loop. After the second call: runtime::init() and
\* execute_supervisor up to the construction of the Runtime.
PauseExit(h) ==
    /\ pc[h] = "pause_exit"
    /\ pause_returns' = [pause_returns EXCEPT ![h] = @ + 1]
    /\ msip' = clear_soft(msip, pause_hartid(h))
    /\ clint_writes' = clint_writes \cup {ClintWrite(h, pause_hartid(h), "clear")}
    /\ LET returned == [csr[h] EXCEPT !.mie = pause_restore(@, prev_msoft[h])] IN
        /\ exit_msoft' = [exit_msoft EXCEPT ![h] = "msoft" \in returned.mie]
        /\ IF pause_calls[h] = 1
              THEN LET delegated == follower_delegate(returned, h) IN
                   /\ delegate_calls' = [delegate_calls EXCEPT
                                            ![h] = IF h # 0 THEN @ + 1 ELSE @]
                   /\ pause_calls' = [pause_calls EXCEPT ![h] = @ + 1]
                   /\ entry_msoft' = [entry_msoft EXCEPT ![h] = "msoft" \in delegated.mie]
                   /\ sent_since_clear' = [sent_since_clear EXCEPT
                                              ![pause_hartid(h)] = FALSE]
                   /\ prev_msoft' = [prev_msoft EXCEPT ![h] = "msoft" \in delegated.mie]
                   /\ csr' = [csr EXCEPT ![h] = pause_listen(delegated)]
                   /\ pc' = [pc EXCEPT ![h] = "pause_wfi"]
                   /\ UNCHANGED <<supervisor_mepc, ctx>>
              ELSE /\ csr' = [csr EXCEPT ![h] = returned]
                   /\ supervisor_mepc' = [supervisor_mepc EXCEPT
                                             ![h] = fw_dynamic_info.next_addr]
                   /\ ctx' = [ctx EXCEPT
                                 ![h] = new_sbi_supervisor(fw_dynamic_info.next_addr, h)]
                   /\ pc' = [pc EXCEPT ![h] = "resume"]
                   /\ UNCHANGED <<delegate_calls, pause_calls, entry_msoft,
                                  sent_since_clear, prev_msoft>>
    /\ UNCHANGED <<fw_dynamic_info, dt_warning, stack, sp, target_hart_id, init_log,
                   send_count, dt_result>>
    /\ UNCHANGED <<trap, trap_ctx, ecalls, sbi_ret>>

(* ------------------------------------------------------------------ *)
(* Entering the trap/resume loop                                       *)
(* ------------------------------------------------------------------ *)

\* runtime::init(); execute::execute_supervisor(fw_dynamic_info.next_addr, hart_id,
\* opaque) up to the construction of the Runtime, on the boot hart
EnterSupervisor(h) ==
    /\ pc[h] = "runtime_init"
    /\ supervisor_mepc' = [supervisor_mepc EXCEPT ![h] = fw_dynamic_info.next_addr]
    /\ ctx' = [ctx EXCEPT ![h] = new_sbi_supervisor(fw_dynamic_info.next_addr, h)]
    /\ pc' = [pc EXCEPT ![h] = "resume"]
    /\ UNCHANGED <<fw_dynamic_info, dt_warning, stack, sp, clint_writes, sent_since_clear, target_hart_id, msip, csr, prev_msoft,
                   pause_calls, pause_returns, entry_msoft, exit_msoft, init_log, send_count,
                   dt_result, delegate_calls>>
    /\ UNCHANGED <<trap, trap_ctx, ecalls, sbi_ret>>

(* ------------------------------------------------------------------ *)
(* The boot sequence of the five harts                                 *)
(* ------------------------------------------------------------------ *)

\* mie as the previous boot stage leaves it: machine interrupts disabled
ResetMie == {{}}

NoSbiRet == [error |-> 0, value |-> 0]

\* The state in which every hart has left entry and is about to execute
\* rust_main, for the boot descriptors of infos.
InitFrom(infos, resetMies, resetMsip) ==
    /\ fw_dynamic_info \in infos
    /\ stack = LinkedStack
    /\ sp = [h \in Harts |-> entry_sp(LinkedStack, h)]
    /\ clint_writes = {}
    /\ sent_since_clear = [h \in Harts |-> FALSE]
    /\ pc = [h \in Harts |-> "main"]
    /\ target_hart_id = [h \in Harts |-> FirstTarget]
    /\ msip \in resetMsip
    /\ \E m \in resetMies : csr = [h \in Harts |-> ResetCsr(m)]
    /\ prev_msoft = [h \in Harts |-> FALSE]
    /\ pause_calls = [h \in Harts |-> 0]
    /\ pause_returns = [h \in Harts |-> 0]
    /\ entry_msoft = [h \in Harts |-> FALSE]
    /\ exit_msoft = [h \in Harts |-> FALSE]
    /\ init_log = <<>>
    /\ send_count = [s \in Harts |-> [t \in Harts |-> 0]]
    /\ dt_result = "none"
    /\ dt_warning = FALSE
    /\ supervisor_mepc = [h \in Harts |-> 0]
    /\ delegate_calls = [h \in Harts |-> 0]
    /\ ctx = [h \in Harts |-> NoContext]
    /\ trap = [h \in Harts |-> "none"]
    /\ trap_ctx = [h \in Harts |-> NoContext]
    /\ ecalls = [h \in Harts |-> <<>>]
    /\ sbi_ret = [h \in Harts |-> NoSbiRet]

InitWith(bootHarts, addrs, resetMies, resetMsip) ==
    InitFrom([magic : {FW_DYNAMIC_INFO_MAGIC_VALUE}, boot_hart : bootHarts,
              next_addr : addrs], resetMies, resetMsip)

Init == InitWith(0..MaxBootHart, NextAddrs, ResetMie, {[h \in Harts |-> FALSE]})

HartStep(h) ==
    \/ InitBss(h)
    \/ InitStdout(h)
    \/ Notify1(h)
    \/ InitHeap(h)
    \/ InitRustsbiStdio(h)
    \/ InitRustsbiClint(h)
    \/ ParseDeviceTree(h)
    \/ BootDelegate(h)
    \/ Notify2(h)
    \/ PauseClear(h)
    \/ PauseWfi(h)
    \/ PauseExit(h)
    \/ EnterSupervisor(h)

(* ------------------------------------------------------------------ *)
(* execute_supervisor: the trap/resume loop                            *)
(* ------------------------------------------------------------------ *)

RegNames == {"a0", "a1", "a2", "a3", "a4", "a5", "a6", "a7"}

\* Register tuples the supervisor presents at a trap: one register set and the
\* others clear, for each register; all clear; all set; all different.
RegSamples ==
    {[r \in RegNames |-> IF r = one THEN MaxWord ELSE 0] : one \in RegNames}
    \cup {[r \in RegNames |-> 0], [r \in RegNames |-> MaxWord]}
    \cup {[a0 |-> 1, a1 |-> 2, a2 |-> 3, a3 |-> 4, a4 |-> 5, a5 |-> 6,
           a6 |-> 7, a7 |-> 8]}

\* Program counters of the trapping instruction, the largest words among them.
MepcSamples == {0, WordModulus \div 2, MaxWord - 4, MaxWord - 3, MaxWord}

SupervisorContexts ==
    {[a0 |-> r.a0, a1 |-> r.a1, a2 |-> r.a2, a3 |-> r.a3, a4 |-> r.a4,
      a5 |-> r.a5, a6 |-> r.a6, a7 |-> r.a7, mepc |-> m] :
        r \in RegSamples, m \in MepcSamples}

\* SbiRet { error, value } as rustsbi::ecall returns it: success and an error
\* code (negative, so a large word), with two values.
SbiRets == [error : {0, MaxWord - 1}, value : {1, MaxWord}]

MachineTraps == {"SbiCall", "IllegalInstruction", "MachineTimer", "MachineSoft"}

\* usize::wrapping_add
wrapping_add(x, n) == (x + n) % WordModulus

\* rustsbi::ecall(ctx.a6, ctx.a7, param): extension and function exchanged
ecall_request_swapped(c) ==
    [extension |-> c.a6, function |-> c.a7,
     param |-> <<c.a0, c.a1, c.a2, c.a3, c.a4, c.a5>>]

\* let param = [ctx.a0, ctx.a1, ctx.a2, ctx.a3, ctx.a4, ctx.a5];
\* rustsbi::ecall(ctx.a7, ctx.a6, param)
ecall_request(c) ==
    [extension |-> c.a7, function |-> c.a6,
     param |-> <<c.a0, c.a1, c.a2, c.a3, c.a4, c.a5>>]

\* the writeback with the selector registers cleared as well
sbi_writeback_clobber(c, ans) ==
    [c EXCEPT !.a0 = ans.error, !.a1 = ans.value, !.a6 = 0, !.a7 = 0,
              !.mepc = wrapping_add(@, EcallLen)]

\* the writeback with the program counter advanced only on success
sbi_writeback_on_success(c, ans) ==
    [c EXCEPT !.a0 = ans.error, !.a1 = ans.value,
              !.mepc = IF ans.error = 0 THEN wrapping_add(@, EcallLen) ELSE @]

\* ctx.a0 = ans.error; ctx.a1 = ans.value; ctx.mepc = ctx.mepc.wrapping_add(4)
sbi_writeback(c, ans) ==
    [c EXCEPT !.a0 = ans.error, !.a1 = ans.value,
              !.mepc = wrapping_add(@, EcallLen)]

\* Effects of one rustsbi::ecall on the machine state: the timer extension may
\* arm the machine timer of the calling hart, and the IPI extension executes
\* clint.send_soft for every hart of the mask the supervisor passed, through
\* the CLINT that init_rustsbi_clint registered.
IpiMasks == {{}, {0, LastTarget}}

SbiEffects == {[timer |-> TRUE, ipi |-> {}]}
              \cup {[timer |-> FALSE, ipi |-> mask] : mask \in IpiMasks}

\* Pin::new(&mut rt).resume(()): the supervisor runs from the context and the
\* Runtime yields the next machine trap, or completes. The machine timer
\* interrupt is taken only while mie.mtimer is set.
ResumeWith(h, contexts, traps) ==
    /\ pc[h] = "resume"
    /\ \E c \in contexts, t \in traps :
          /\ t = "MachineTimer" => "mtimer" \in csr[h].mie
          /\ ctx' = [ctx EXCEPT ![h] = c]
          /\ trap_ctx' = [trap_ctx EXCEPT ![h] = c]
          /\ trap' = [trap EXCEPT ![h] = t]
    /\ ecalls' = [ecalls EXCEPT ![h] = <<>>]
    /\ sbi_ret' = [sbi_ret EXCEPT ![h] = NoSbiRet]
    /\ pc' = [pc EXCEPT ![h] = "trapped"]
    /\ UNCHANGED <<fw_dynamic_info, dt_warning, stack, sp, clint_writes, sent_since_clear, target_hart_id, msip, csr, prev_msoft,
                   pause_calls, pause_returns, entry_msoft, exit_msoft, init_log, send_count,
                   dt_result, supervisor_mepc, delegate_calls>>

ResumeFrom(h, contexts) == ResumeWith(h, contexts, MachineTraps \cup {"Complete"})

Resume(h) == ResumeFrom(h, SupervisorContexts)

\* GeneratorState::Yielded(MachineTrap::SbiCall()). The dispatcher returns an
\* SbiRet of rets and has one of the effects: it arms the machine timer of the
\* calling hart, or it sets the CLINT flag of every hart of an IPI mask.
\* send_count counts the sends of rust_main's two loops, not these.
HandleSbiCallWith(h, rets, effects) ==
    /\ pc[h] = "trapped"
    /\ trap[h] = "SbiCall"
    /\ \E ans \in rets, eff \in effects :
          /\ ecalls' = [ecalls EXCEPT ![h] = Append(@, ecall_request(ctx[h]))]
          /\ sbi_ret' = [sbi_ret EXCEPT ![h] = ans]
          /\ csr' = [csr EXCEPT ![h].mie = IF eff.timer THEN @ \cup {"mtimer"} ELSE @,
                                ![h].mip = IF eff.timer THEN @ \ {"stimer"} ELSE @]
          /\ msip' = [t \in Harts |-> IF t \in eff.ipi THEN send_soft(msip, t)[t]
                                                        ELSE msip[t]]
          /\ clint_writes' = clint_writes \cup {EcallWrite(h, t) : t \in eff.ipi}
          /\ sent_since_clear' = [t \in Harts |-> sent_since_clear[t] \/ t \in eff.ipi]
          /\ ctx' = [ctx EXCEPT ![h] = sbi_writeback(@, ans)]
    /\ pc' = [pc EXCEPT ![h] = "resume"]
    /\ UNCHANGED <<fw_dynamic_info, dt_warning, stack, sp, target_hart_id, prev_msoft,
                   pause_calls, pause_returns, entry_msoft, exit_msoft, init_log, send_count,
                   dt_result, supervisor_mepc, delegate_calls, trap, trap_ctx>>

HandleSbiCall(h) == HandleSbiCallWith(h, SbiRets, SbiEffects)

\* the illegal instruction skipped and the supervisor resumed
HandleIllegalInstructionSkip(h) ==
    /\ pc[h] = "trapped"
    /\ trap[h] = "IllegalInstruction"
    /\ ctx' = [ctx EXCEPT ![h].mepc = wrapping_add(@, EcallLen)]
    /\ pc' = [pc EXCEPT ![h] = "resume"]
    /\ UNCHANGED <<fw_dynamic_info, dt_warning, stack, sp, clint_writes, sent_since_clear,
                   target_hart_id, msip, csr, prev_msoft, pause_calls,
                   pause_returns, entry_msoft, exit_msoft, init_log, send_count, dt_result,
                   supervisor_mepc, delegate_calls>>
    /\ UNCHANGED <<trap, trap_ctx, ecalls, sbi_ret>>

\* GeneratorState::Yielded(MachineTrap::IllegalInstruction()) => todo!(): the
\* hart panics and on_panic spins
HandleIllegalInstruction(h) ==
    /\ pc[h] = "trapped"
    /\ trap[h] = "IllegalInstruction"
    /\ pc' = [pc EXCEPT ![h] = "panicked"]
    /\ UNCHANGED <<fw_dynamic_info, dt_warning, stack, sp, clint_writes, sent_since_clear, target_hart_id, msip, csr, prev_msoft,
                   pause_calls, pause_returns, entry_msoft, exit_msoft, init_log, send_count,
                   dt_result, supervisor_mepc, delegate_calls>>
    /\ UNCHANGED trapVars

\* mip::set_stimer() alone
HandleMachineTimerKeepEnabled(h) ==
    /\ pc[h] = "trapped"
    /\ trap[h] = "MachineTimer"
    /\ csr' = [csr EXCEPT ![h].mip = @ \cup {"stimer"}]
    /\ pc' = [pc EXCEPT ![h] = "resume"]
    /\ UNCHANGED <<fw_dynamic_info, dt_warning, stack, sp, clint_writes, sent_since_clear,
                   target_hart_id, msip, prev_msoft, pause_calls,
                   pause_returns, entry_msoft, exit_msoft, init_log, send_count, dt_result,
                   supervisor_mepc, delegate_calls>>
    /\ UNCHANGED trapVars

\* GeneratorState::Yielded(MachineTrap::MachineTimer()):
\* mip::set_stimer(); mie::clear_mtimer()
HandleMachineTimer(h) ==
    /\ pc[h] = "trapped"
    /\ trap[h] = "MachineTimer"
    /\ csr' = [csr EXCEPT ![h].mip = @ \cup {"stimer"},
                          ![h].mie = @ \ {"mtimer"}]
    /\ pc' = [pc EXCEPT ![h] = "resume"]
    /\ UNCHANGED <<fw_dynamic_info, dt_warning, stack, sp, clint_writes, sent_since_clear, target_hart_id, msip, prev_msoft,
                   pause_calls, pause_returns, entry_msoft, exit_msoft, init_log, send_count,
                   dt_result, supervisor_mepc, delegate_calls>>
    /\ UNCHANGED trapVars

\* GeneratorState::Yielded(MachineTrap::MachineSoft()) => todo!()
HandleMachineSoft(h) ==
    /\ pc[h] = "trapped"
    /\ trap[h] = "MachineSoft"
    /\ pc' = [pc EXCEPT ![h] = "panicked"]
    /\ UNCHANGED <<fw_dynamic_info, dt_warning, stack, sp, clint_writes, sent_since_clear, target_hart_id, msip, csr, prev_msoft,
                   pause_calls, pause_returns, entry_msoft, exit_msoft, init_log, send_count,
                   dt_result, supervisor_mepc, delegate_calls>>
    /\ UNCHANGED trapVars

\* GeneratorState::Complete(()) => continue
HandleCompleteContinue(h) ==
    /\ pc[h] = "trapped"
    /\ trap[h] = "Complete"
    /\ pc' = [pc EXCEPT ![h] = "resume"]
    /\ UNCHANGED <<fw_dynamic_info, dt_warning, stack, sp, clint_writes, sent_since_clear,
                   target_hart_id, msip, csr, prev_msoft, pause_calls,
                   pause_returns, entry_msoft, exit_msoft, init_log, send_count, dt_result,
                   supervisor_mepc, delegate_calls>>
    /\ UNCHANGED trapVars

\* GeneratorState::Complete(()) => break: execute_supervisor and rust_main
\* return and the entry code executes cease
HandleComplete(h) ==
    /\ pc[h] = "trapped"
    /\ trap[h] = "Complete"
    /\ pc' = [pc EXCEPT ![h] = "ceased"]
    /\ UNCHANGED <<fw_dynamic_info, dt_warning, stack, sp, clint_writes, sent_since_clear, target_hart_id, msip, csr, prev_msoft,
                   pause_calls, pause_returns, entry_msoft, exit_msoft, init_log, send_count,
                   dt_result, supervisor_mepc, delegate_calls>>
    /\ UNCHANGED trapVars

TrapStep(h) ==
    \/ Resume(h)
    \/ HandleSbiCall(h)
    \/ HandleIllegalInstruction(h)
    \/ HandleMachineTimer(h)
    \/ HandleMachineSoft(h)
    \/ HandleComplete(h)

(* ------------------------------------------------------------------ *)
(* The boot sequence with the harts that have entered their loops      *)
(* ------------------------------------------------------------------ *)

\* Number of harts whose supervisor is resumed while the boot sequence runs.
\* Every hart reaches execute_supervisor; the others stay at their first
\* resume.
MaxLoopHarts == 1

\* The harts whose supervisor is resumed: the boot hart and the harts after it
\* in the order of hart ids.
LoopHarts ==
    {h \in Harts :
        (h + NHarts - (fw_dynamic_info.boot_hart % NHarts)) % NHarts < MaxLoopHarts}

\* The supervisor context and the SbiRet of the suspensions followed during boot.
BootContexts ==
    {[a0 |-> 1, a1 |-> 2, a2 |-> 3, a3 |-> 4, a4 |-> 5, a5 |-> 6, a6 |-> 7,
      a7 |-> 8, mepc |-> WordModulus \div 2]}

BootRets == {[error |-> 0, value |-> 1]}

\* rt.as_mut().resume(()) on a hart whose supervisor is followed
LoopResume(h) ==
    /\ h \in LoopHarts
    /\ ResumeFrom(h, BootContexts)

\* One step of the loop of execute_supervisor: resume, or the arm of the match
\* for what it returned.
LoopStep(h) ==
    \/ LoopResume(h)
    \/ HandleSbiCallWith(h, BootRets, SbiEffects)
    \/ HandleIllegalInstruction(h)
    \/ HandleMachineTimer(h)
    \/ HandleMachineSoft(h)
    \/ HandleComplete(h)

Next == \E h \in Harts : HartStep(h) \/ LoopStep(h)

Spec == Init /\ [][Next]_vars

\* The steps of rust_main on the boot hart, in program order.
BootInitSteps == <<"init_bss", "init_stdout", "init_heap", "init_rustsbi_stdio",
                   "init_rustsbi_clint", "parse_device_tree", "delegate">>

NotifyTargets(b) == (FirstTarget..LastTarget) \ {b}

\* Values of next_addr in the trap loop's specification.
SbiNextAddrs == {WordModulus \div 2, MaxWord - 3}

\* The boot hart has run alone from reset into its trap/resume loop; the
\* followers have not yet executed an instruction of rust_main.
SbiInit ==
    /\ fw_dynamic_info \in [magic : {FW_DYNAMIC_INFO_MAGIC_VALUE}, boot_hart : Harts,
                            next_addr : SbiNextAddrs]
    /\ stack = LinkedStack
    /\ sp = [h \in Harts |-> entry_sp(LinkedStack, h)]
    /\ LET b == fw_dynamic_info.boot_hart IN
        /\ sent_since_clear = [h \in Harts |-> h \in NotifyTargets(b)]
        /\ clint_writes = {ClintWrite(b, t, "set") : t \in NotifyTargets(b)}
        /\ pc = [h \in Harts |-> IF h = b THEN "resume" ELSE "main"]
        /\ target_hart_id = [h \in Harts |-> IF h = b THEN LastTarget ELSE FirstTarget]
        /\ msip = [h \in Harts |-> h \in NotifyTargets(b)]
        /\ \E m \in ResetMie :
              csr = [h \in Harts |-> IF h = b
                                       THEN delegate_interrupt_exception(ResetCsr(m))
                                       ELSE ResetCsr(m)]
        /\ init_log = [i \in 1..Len(BootInitSteps) |->
                          [hart |-> b, step |-> BootInitSteps[i]]]
        /\ send_count = [s \in Harts |-> [t \in Harts |->
                            IF s = b /\ t \in NotifyTargets(b) THEN 2 ELSE 0]]
        /\ supervisor_mepc = [h \in Harts |->
                                 IF h = b THEN fw_dynamic_info.next_addr ELSE 0]
        /\ ctx = [h \in Harts |->
                     IF h = b THEN new_sbi_supervisor(fw_dynamic_info.next_addr, h)
                              ELSE NoContext]
    /\ dt_result \in {"Ok", "Err"}
    /\ dt_warning = (dt_result = "Err")
    /\ delegate_calls = [h \in Harts |-> IF IsBootHart(h) THEN 1 ELSE 0]
    /\ prev_msoft = [h \in Harts |-> FALSE]
    /\ pause_calls = [h \in Harts |-> 0]
    /\ pause_returns = [h \in Harts |-> 0]
    /\ entry_msoft = [h \in Harts |-> FALSE]
    /\ exit_msoft = [h \in Harts |-> FALSE]
    /\ trap = [h \in Harts |-> "none"]
    /\ trap_ctx = [h \in Harts |-> NoContext]
    /\ ecalls = [h \in Harts |-> <<>>]
    /\ sbi_ret = [h \in Harts |-> NoSbiRet]

SbiNext == \E h \in Harts : TrapStep(h)

SbiSpec == SbiInit /\ [][SbiNext]_vars

(* ------------------------------------------------------------------ *)
(* Properties of the SBI dispatch bridge                               *)
(* ------------------------------------------------------------------ *)

\* The hart has handled the SbiCall its last resume yielded and is about to
\* call resume again.
SbiCallHandled(h) == pc[h] = "resume" /\ trap[h] = "SbiCall"

\* C1: when resume yields SbiCall the dispatcher is invoked exactly once, with
\* extension id a7, function id a6 and arguments [a0..a5] of the context at the
\* trap; after the writeback a0 is the returned error code and a1 the returned
\* value.
C1_DispatchAndWriteback ==
    \A h \in Harts :
        /\ (pc[h] = "trapped" /\ trap[h] = "SbiCall") => ecalls[h] = <<>>
        /\ SbiCallHandled(h) =>
              /\ Len(ecalls[h]) = 1
              /\ ecalls[h][1].extension = trap_ctx[h].a7
              /\ ecalls[h][1].function = trap_ctx[h].a6
              /\ ecalls[h][1].param = <<trap_ctx[h].a0, trap_ctx[h].a1, trap_ctx[h].a2,
                                        trap_ctx[h].a3, trap_ctx[h].a4, trap_ctx[h].a5>>
              /\ ctx[h].a0 = sbi_ret[h].error
              /\ ctx[h].a1 = sbi_ret[h].value

\* An SbiCall with a7 set and a6 clear was dispatched and returned an error.
C1_Witness ==
    \E h \in Harts :
        /\ SbiCallHandled(h)
        /\ trap_ctx[h].a7 = MaxWord /\ trap_ctx[h].a6 = 0
        /\ sbi_ret[h].error # 0
        /\ ctx[h].a0 = sbi_ret[h].error

\* C2: a dispatch-and-writeback cycle leaves a2..a7 of the context as they were
\* at the trap, for every register tuple and every dispatcher result.
C2_FrameA2ToA7 ==
    \A h \in Harts :
        SbiCallHandled(h) =>
            \A r \in {"a2", "a3", "a4", "a5", "a6", "a7"} : ctx[h][r] = trap_ctx[h][r]

\* An SbiCall with eight different registers was dispatched and a0, a1 changed.
C2_Witness ==
    \E h \in Harts :
        /\ SbiCallHandled(h)
        /\ trap_ctx[h].a2 = 3 /\ trap_ctx[h].a6 = 7 /\ trap_ctx[h].a7 = 8
        /\ ctx[h].a0 # trap_ctx[h].a0 /\ ctx[h].a1 # trap_ctx[h].a1

\* C3 as stated: after every SbiCall dispatch the saved program counter is its
\* pre-call value plus 4, for every pre-call value, the largest included.
C3_MepcPlusFourExact ==
    \A h \in Harts : SbiCallHandled(h) => ctx[h].mepc = trap_ctx[h].mepc + EcallLen

\* C3 amended: after every SbiCall dispatch the saved program counter is its
\* pre-call value plus 4 modulo 2^XLEN, whatever error code the dispatcher
\* returned: the sum itself for every pre-call value but the four largest, for
\* which it wraps around to 0..3.
C3_MepcPlusFourWrapping ==
    \A h \in Harts :
        SbiCallHandled(h) =>
            IF trap_ctx[h].mepc <= MaxWord - EcallLen
               THEN ctx[h].mepc = trap_ctx[h].mepc + EcallLen
               ELSE ctx[h].mepc = trap_ctx[h].mepc + EcallLen - WordModulus

\* A failed SbiCall at one of the four largest program counters wrapped around.
C3_Witness ==
    \E h \in Harts :
        /\ SbiCallHandled(h)
        /\ trap_ctx[h].mepc = MaxWord - 3
        /\ ctx[h].mepc = 0
        /\ sbi_ret[h].error # 0

(* ------------------------------------------------------------------ *)
(* Properties of the boot sequence                                     *)
(* ------------------------------------------------------------------ *)

InLoop(h) == pc[h] \in {"resume", "trapped", "panicked", "ceased"}

LoggedSteps == {init_log[i].step : i \in 1..Len(init_log)}

\* C4 as stated: memory zeroing, console initialization, heap initialization
\* and delegation have all completed before the boot hart's first send.
C4_AllInitBeforeFirstSend ==
    \A s, t \in Harts :
        send_count[s][t] > 0 =>
            {"init_bss", "init_stdout", "init_heap", "delegate"} \subseteq LoggedSteps

\* C4 amended: memory zeroing and console initialization have completed, in
\* program order, before the boot hart's first send; heap initialization, the
\* SBI stdio and IPI/timer registration, device-tree parsing and delegation
\* come after the first round of sends and have completed, in program order,
\* before the first send of the second round.
C4_InitBeforeSends ==
    \A s, t \in Harts :
        /\ send_count[s][t] >= 1 =>
              /\ Len(init_log) >= 2
              /\ init_log[1] = [hart |-> s, step |-> "init_bss"]
              /\ init_log[2] = [hart |-> s, step |-> "init_stdout"]
        /\ (send_count[s][t] = 1 /\ pc[s] = "notify1") => Len(init_log) = 2
        /\ send_count[s][t] >= 2 =>
              init_log = <<[hart |-> s, step |-> "init_bss"],
                           [hart |-> s, step |-> "init_stdout"],
                           [hart |-> s, step |-> "init_heap"],
                           [hart |-> s, step |-> "init_rustsbi_stdio"],
                           [hart |-> s, step |-> "init_rustsbi_clint"],
                           [hart |-> s, step |-> "parse_device_tree"],
                           [hart |-> s, step |-> "delegate"]>>

\* The boot hart has executed its first send and is still in the first loop,
\* with the heap not yet initialized.
C4_Witness ==
    \E s, t \in Harts :
        /\ IsBootHart(s)
        /\ pc[s] = "notify1"
        /\ send_count[s][t] = 1
        /\ "init_stdout" \in LoggedSteps
        /\ "init_heap" \notin LoggedSteps

\* Sends the boot hart has executed to hart t.
BootSends(t) ==
    IF fw_dynamic_info.boot_hart \in Harts
       THEN send_count[fw_dynamic_info.boot_hart][t]
       ELSE 0

\* C5: a follower's k-th pause call (k = 1, 2) returns only after the boot
\* hart has executed its k-th send to that follower.
C5_PauseReturnAfterSend ==
    \A h \in Harts :
        ~IsBootHart(h) =>
            \A k \in 1..2 : pause_returns[h] >= k => BootSends(h) >= k

\* C7 as stated: for every boot_hart in 0..4, when the boot hart enters its
\* trap/resume loop it has sent exactly twice to each other hart and never
\* to itself.
C7_TwoSendsToEveryOtherHart ==
    \A b \in Harts :
        (IsBootHart(b) /\ InLoop(b)) =>
            \A t \in Harts : send_count[b][t] = IF t # b THEN 2 ELSE 0

\* C7 amended: for every boot_hart in 0..4, when the boot hart enters its
\* trap/resume loop it has sent exactly twice to each of the harts 1..4 other
\* than itself, and never to itself or to hart 0.
C7_TwoSendsToHarts1To4 ==
    \A b \in Harts :
        (IsBootHart(b) /\ InLoop(b)) =>
            \A t \in Harts :
                send_count[b][t] = IF t # b /\ t >= 1 /\ t <= 4 THEN 2 ELSE 0

\* Boot hart 2 is in its loop: two sends to harts 1, 3, 4 and none to 0 and 2.
C7_Witness ==
    /\ fw_dynamic_info.boot_hart = 2
    /\ InLoop(2)
    /\ send_count[2][1] = 2 /\ send_count[2][3] = 2 /\ send_count[2][4] = 2
    /\ send_count[2][0] = 0 /\ send_count[2][2] = 0

\* C8: each global one-time initialization step (init_bss, console, heap, SBI
\* stdio and IPI/timer registration, device-tree discovery) is performed at
\* most once, and only by the hart whose id is boot_hart.
C8_InitOnceByBootHart ==
    \A i \in 1..Len(init_log) :
        /\ init_log[i].hart = fw_dynamic_info.boot_hart
        /\ \A j \in 1..Len(init_log) : j # i => init_log[j].step # init_log[i].step

\* Every initialization step is done and a follower is in its loop.
C8_Witness ==
    /\ {"init_bss", "init_stdout", "init_heap", "init_rustsbi_stdio",
        "init_rustsbi_clint", "parse_device_tree"} \subseteq LoggedSteps
    /\ \E h \in Harts : ~IsBootHart(h) /\ InLoop(h)

\* C9: when pause returns, mie.msoft is what it was when pause was entered
\* and the hart's software-interrupt-pending flag is clear. (The step of the
\* first return goes on through the follower's delegation into the second
\* pause, so mie is that of the return itself only after the second.)
C9_PauseRestoresMsoft ==
    [][\A h \in Harts :
          pause_returns'[h] = pause_returns[h] + 1 =>
              /\ exit_msoft'[h] = entry_msoft[h]
              /\ pause_returns'[h] = 2 =>
                     ("msoft" \in csr'[h].mie) = entry_msoft[h]
              /\ ~msip'[h]]_vars

\* A hart has returned from a pause it entered with mie.msoft set (its second),
\* after one it entered with mie.msoft clear (its first).
C9_Witness ==
    \E h \in Harts :
        /\ pause_returns[h] = 2
        /\ pc[h] = "resume"
        /\ entry_msoft[h]
        /\ exit_msoft[h]
        /\ mie_msoft(h)
        /\ ~msip[h]

(* ------------------------------------------------------------------ *)
(* The boot sequence under fair scheduling of every hart               *)
(* ------------------------------------------------------------------ *)

\* The boot descriptor names hart 0 as the boot hart.
FairInit == InitWith({0}, NextAddrs, ResetMie, {[h \in Harts |-> FALSE]})

\* Every hart keeps executing the instructions of rust_main and pause. Nothing
\* obliges a supervisor to execute an ecall, let alone one that sends an IPI:
\* the steps of LoopStep are possible but not fair.
FairSpec == FairInit /\ [][Next]_vars /\ \A h \in Harts : WF_vars(HartStep(h))

\* C6: with boot_hart = 0 and every hart scheduled fairly, hart 0 sends two
\* notifications to each of the harts 1..4, each of them returns from both
\* pause calls, and every hart enters its trap/resume loop at next_addr.
C6_EveryHartEntersLoop ==
    <>(\A h \in Harts :
          /\ InLoop(h)
          /\ supervisor_mepc[h] = fw_dynamic_info.next_addr
          /\ h # 0 => (send_count[0][h] = 2 /\ pause_returns[h] = 2))

(* ------------------------------------------------------------------ *)
(* delegate_interrupt_exception called repeatedly on a hart            *)
(* ------------------------------------------------------------------ *)

\* delegate_interrupt_exception() once more on hart h
DelegateCall(h) ==
    /\ delegate_calls[h] < MaxDelegateCalls
    /\ csr' = [csr EXCEPT ![h] = delegate_interrupt_exception(csr[h])]
    /\ delegate_calls' = [delegate_calls EXCEPT ![h] = @ + 1]
    /\ UNCHANGED <<fw_dynamic_info, dt_warning, stack, sp, clint_writes, sent_since_clear, pc, target_hart_id, msip, prev_msoft,
                   pause_calls, pause_returns, entry_msoft, exit_msoft, init_log, send_count,
                   dt_result, supervisor_mepc>>
    /\ UNCHANGED trapVars

\* Cleared delegation registers; any of the machine interrupt enables set.
DelegInit ==
    InitWith({0}, NextAddrs, SUBSET {"msoft", "mtimer", "mext"},
             {[h \in Harts |-> FALSE]})

DelegNext == \E h \in Harts : DelegateCall(h)

DelegSpec == DelegInit /\ [][DelegNext]_vars

\* C10: from cleared delegation registers, every call of
\* delegate_interrupt_exception on a hart leaves exactly the supervisor/user
\* external, timer and software interrupts delegated in mideleg and exactly
\* the nine listed exceptions in medeleg (not the supervisor environment call,
\* not the machine timer or machine software interrupt), mie.mext and
\* mie.msoft set and mie.mtimer as it was; a second call changes nothing.
C10_Delegation ==
    [][\A h \in Harts :
          delegate_calls'[h] = delegate_calls[h] + 1 =>
              /\ csr'[h].mideleg =
                    {"sext", "uext", "stimer", "utimer", "ssoft", "usoft"}
              /\ csr'[h].medeleg =
                    {"instruction_misaligned", "breakpoint", "user_env_call",
                     "instruction_page_fault", "load_page_fault",
                     "store_page_fault", "instruction_fault", "load_fault",
                     "store_fault"}
              /\ "supervisor_env_call" \notin csr'[h].medeleg
              /\ "mtimer" \notin csr'[h].mideleg
              /\ "msoft" \notin csr'[h].mideleg
              /\ {"mext", "msoft"} \subseteq csr'[h].mie
              /\ ("mtimer" \in csr'[h].mie) = ("mtimer" \in csr[h].mie)
              /\ delegate_calls[h] >= 1 => csr'[h] = csr[h]]_vars

\* A hart has delegated twice with the machine timer interrupt disabled.
C10_Witness ==
    \E h \in Harts :
        /\ delegate_calls[h] = 2
        /\ csr[h].mie = {"mext", "msoft"}
        /\ "stimer" \in csr[h].mideleg
        /\ "user_env_call" \in csr[h].medeleg

(* ------------------------------------------------------------------ *)
(* The per-hart stacks set up by entry                                 *)
(* ------------------------------------------------------------------ *)

\* Reset: every hart is at entry, SBI_STACK is somewhere in memory.
EntryInit ==
    /\ fw_dynamic_info \in [magic : {FW_DYNAMIC_INFO_MAGIC_VALUE}, boot_hart : {1},
                            next_addr : NextAddrs]
    /\ stack \in StackBases
    /\ sp = [h \in Harts |-> 0]
    /\ clint_writes = {}
    /\ sent_since_clear = [h \in Harts |-> FALSE]
    /\ pc = [h \in Harts |-> "entry"]
    /\ target_hart_id = [h \in Harts |-> FirstTarget]
    /\ msip = [h \in Harts |-> FALSE]
    /\ \E m \in ResetMie : csr = [h \in Harts |-> ResetCsr(m)]
    /\ prev_msoft = [h \in Harts |-> FALSE]
    /\ pause_calls = [h \in Harts |-> 0]
    /\ pause_returns = [h \in Harts |-> 0]
    /\ entry_msoft = [h \in Harts |-> FALSE]
    /\ exit_msoft = [h \in Harts |-> FALSE]
    /\ init_log = <<>>
    /\ send_count = [s \in Harts |-> [t \in Harts |-> 0]]
    /\ dt_result = "none"
    /\ dt_warning = FALSE
    /\ supervisor_mepc = [h \in Harts |-> 0]
    /\ delegate_calls = [h \in Harts |-> 0]
    /\ ctx = [h \in Harts |-> NoContext]
    /\ trap = [h \in Harts |-> "none"]
    /\ trap_ctx = [h \in Harts |-> NoContext]
    /\ ecalls = [h \in Harts |-> <<>>]
    /\ sbi_ret = [h \in Harts |-> NoSbiRet]

EntryNext == \E h \in Harts : Entry(h)

EntrySpec == EntryInit /\ [][EntryNext]_vars

\* The hart has executed entry and holds its stack pointer.
Entered(h) == pc[h] # "entry"

\* C11: for every hart id h in 0..4 the add loop of entry ends with
\* sp = stack + (h + 1) * PER_HART_STACK_SIZE, so the slice of hart h,
\* [stack + h * size, stack + (h + 1) * size), has size PER_HART_STACK_SIZE,
\* lies inside the 5 * PER_HART_STACK_SIZE bytes of SBI_STACK and is disjoint
\* from the slice of every other hart.
C11_StackSlices ==
    \A h \in Harts :
        Entered(h) =>
            /\ sp[h] = stack + (h + 1) * PER_HART_STACK_SIZE
            /\ sp[h] - PER_HART_STACK_SIZE = stack + h * PER_HART_STACK_SIZE
            /\ stack <= sp[h] - PER_HART_STACK_SIZE
            /\ sp[h] <= stack + SBI_STACK_SIZE
            /\ SBI_STACK_SIZE = 5 * PER_HART_STACK_SIZE
            /\ \A h2 \in Harts \ {h} :
                   Entered(h2) =>
                       \/ sp[h] <= sp[h2] - PER_HART_STACK_SIZE
                       \/ sp[h2] <= sp[h] - PER_HART_STACK_SIZE

\* Every hart, the last one included, has run entry on a stack that does not
\* start at address 0.
C11_Witness ==
    /\ \A h \in Harts : Entered(h)
    /\ stack # 0
    /\ sp[NHarts - 1] = stack + SBI_STACK_SIZE

(* ------------------------------------------------------------------ *)
(* A device tree that does not parse                                   *)
(* ------------------------------------------------------------------ *)

\* Every hart has entered execute_supervisor and no supervisor has trapped yet.
AllHartsInLoop == \A h \in Harts : pc[h] = "resume" /\ trap[h] = "none"

\* The hart calls delegate_interrupt_exception in rust_main.
Delegates(h) == IsBootHart(h) \/ h # 0

\* C12: if parse_device_tree returns an error on the boot hart, the boot hart
\* prints the warning and is not halted: it stands at a statement of rust_main
\* it can execute, or is in its trap/resume loop. Whatever the result of the
\* parse, the boot hart in its loop has delegated once, has sent twice to
\* every other hart of 1..4 and runs the supervisor at next_addr, and the state
\* in which all harts have entered their loops is one and the same: it is
\* fixed by boot_hart and next_addr alone.
C12_ParseErrorOnlyWarns ==
    LET b == fw_dynamic_info.boot_hart
        a == fw_dynamic_info.next_addr
    IN  /\ dt_result = "Err" =>
              /\ dt_warning
              /\ pc[b] \in {"delegate", "notify2", "runtime_init"} \/ InLoop(b)
              /\ pc[b] \in {"delegate", "notify2", "runtime_init"} => ENABLED HartStep(b)
        /\ dt_result = "Ok" => ~dt_warning
        /\ (b \in Harts /\ InLoop(b)) =>
              /\ dt_result \in {"Ok", "Err"}
              /\ delegate_calls[b] = 1
              /\ \A t \in Harts :
                    send_count[b][t] = IF t \in NotifyTargets(b) THEN 2 ELSE 0
              /\ supervisor_mepc[b] = a
        /\ AllHartsInLoop =>
              /\ init_log = [i \in 1..Len(BootInitSteps) |->
                                [hart |-> b, step |-> BootInitSteps[i]]]
              /\ send_count = [s \in Harts |-> [t \in Harts |->
                                  IF s = b /\ t \in NotifyTargets(b) THEN 2 ELSE 0]]
              /\ msip = [h \in Harts |-> FALSE]
              /\ \E m \in ResetMie :
                    csr = [h \in Harts |-> IF Delegates(h)
                                             THEN delegate_interrupt_exception(ResetCsr(m))
                                             ELSE ResetCsr(m)]
              /\ delegate_calls = [h \in Harts |-> IF Delegates(h) THEN 1 ELSE 0]
              /\ pause_calls = [h \in Harts |-> IF IsBootHart(h) THEN 0 ELSE 2]
              /\ pause_returns = [h \in Harts |-> IF IsBootHart(h) THEN 0 ELSE 2]
              /\ supervisor_mepc = [h \in Harts |-> a]
              /\ ctx = [h \in Harts |-> new_sbi_supervisor(a, h)]
              /\ clint_writes =
                    {ClintWrite(b, t, "set") : t \in NotifyTargets(b)}
                    \cup {ClintWrite(h, h, "clear") : h \in Harts \ {b}}

\* The parse has failed and every hart has entered its trap/resume loop.
C12_Witness == dt_result = "Err" /\ dt_warning /\ AllHartsInLoop

(* ------------------------------------------------------------------ *)
(* Two harts in their trap/resume loops                                *)
(* ------------------------------------------------------------------ *)

\* Contexts the supervisor presents while two harts are followed.
FewContexts ==
    {[a0 |-> 1, a1 |-> 2, a2 |-> 3, a3 |-> 4, a4 |-> 5, a5 |-> 6, a6 |-> 7,
      a7 |-> 8, mepc |-> m] : m \in {WordModulus \div 2, MaxWord}}

\* The state of the boot sequence in which boot hart 1 and follower 2 have
\* entered execute_supervisor and harts 0, 3 and 4 have not run yet.
PanicInit ==
    /\ fw_dynamic_info = [magic |-> FW_DYNAMIC_INFO_MAGIC_VALUE,
                          boot_hart |-> 1,
                          next_addr |-> WordModulus \div 2]
    /\ stack = LinkedStack
    /\ sp = [h \in Harts |-> entry_sp(LinkedStack, h)]
    /\ LET b == fw_dynamic_info.boot_hart
           f == b + 1
           in == {b, f}
       IN
        /\ clint_writes = {ClintWrite(b, t, "set") : t \in NotifyTargets(b)}
                             \cup {ClintWrite(f, f, "clear")}
        /\ pc = [h \in Harts |-> IF h \in in THEN "resume" ELSE "main"]
        /\ target_hart_id = [h \in Harts |-> IF h = b THEN LastTarget ELSE FirstTarget]
        /\ msip = [h \in Harts |-> h \in NotifyTargets(b) \ {f}]
        /\ \E m \in ResetMie :
              csr = [h \in Harts |-> IF h \in in
                                       THEN delegate_interrupt_exception(ResetCsr(m))
                                       ELSE ResetCsr(m)]
        /\ prev_msoft = [h \in Harts |-> h = f]
        /\ entry_msoft = [h \in Harts |-> h = f]
        /\ exit_msoft = [h \in Harts |-> h = f]
        /\ pause_calls = [h \in Harts |-> IF h = f THEN 2 ELSE 0]
        /\ pause_returns = [h \in Harts |-> IF h = f THEN 2 ELSE 0]
        /\ init_log = [i \in 1..Len(BootInitSteps) |->
                          [hart |-> b, step |-> BootInitSteps[i]]]
        /\ send_count = [s \in Harts |-> [t \in Harts |->
                            IF s = b /\ t \in NotifyTargets(b) THEN 2 ELSE 0]]
        /\ supervisor_mepc = [h \in Harts |->
                                 IF h \in in THEN fw_dynamic_info.next_addr ELSE 0]
        /\ delegate_calls = [h \in Harts |-> IF h \in in THEN 1 ELSE 0]
        /\ ctx = [h \in Harts |->
                     IF h \in in THEN new_sbi_supervisor(fw_dynamic_info.next_addr, h)
                               ELSE NoContext]
        /\ sent_since_clear = [h \in Harts |-> h \in NotifyTargets(b)]
    /\ dt_result = "Ok"
    /\ dt_warning = FALSE
    /\ trap = [h \in Harts |-> "none"]
    /\ trap_ctx = [h \in Harts |-> NoContext]
    /\ ecalls = [h \in Harts |-> <<>>]
    /\ sbi_ret = [h \in Harts |-> NoSbiRet]

PanicStep(h) ==
    \/ ResumeFrom(h, FewContexts)
    \/ HandleSbiCall(h)
    \/ HandleIllegalInstruction(h)
    \/ HandleMachineTimer(h)
    \/ HandleMachineSoft(h)
    \/ HandleComplete(h)

PanicNext == \E h \in Harts : PanicStep(h)

PanicSpec == PanicInit /\ [][PanicNext]_vars

\* The last resume on the hart yielded a trap the driver does not handle.
Aborting(h) ==
    pc[h] = "trapped" /\ trap[h] \in {"IllegalInstruction", "MachineSoft"}

\* C13: when resume yields IllegalInstruction or MachineSoft the hart panics
\* and spins: the abort step changes nothing but the hart's own position (no
\* CLINT flag, no CSR, no Supervisor Context, no state of another hart), a
\* panicked hart never calls resume again and its Supervisor Context stays as
\* it was, and every other hart that is in its loop can still take its next
\* step.
C13_AbortIsLocal ==
    /\ [][\A h \in Harts :
            /\ (Aborting(h) /\ pc'[h] # pc[h]) =>
                   /\ pc'[h] = "panicked"
                   /\ \A g \in Harts \ {h} : pc'[g] = pc[g]
                   /\ UNCHANGED <<ctx, trap, trap_ctx, ecalls, sbi_ret, msip,
                                  clint_writes, send_count, csr>>
            /\ pc[h] = "panicked" =>
                   /\ pc'[h] = "panicked"
                   /\ ctx'[h] = ctx[h]
                   /\ trap'[h] = trap[h]
                   /\ ecalls'[h] = ecalls[h]]_vars
    /\ [](\A h \in Harts, g \in Harts :
            (pc[h] = "panicked" /\ g # h /\ pc[g] \in {"resume", "trapped"})
                => ENABLED PanicStep(g))

\* One hart has panicked on MachineSoft and the other has since had an SbiCall
\* handled.
C13_Witness ==
    \E h \in Harts, g \in Harts :
        /\ h # g
        /\ pc[h] = "panicked"
        /\ trap[h] = "MachineSoft"
        /\ pc[g] = "resume"
        /\ trap[g] = "SbiCall"
        /\ Len(ecalls[g]) = 1

(* ------------------------------------------------------------------ *)
(* The magic number of the boot descriptor                             *)
(* ------------------------------------------------------------------ *)

\* The boot sequence with hart 1 as the boot hart, for a descriptor whose magic
\* field is FW_DYNAMIC_INFO_MAGIC_VALUE and for one whose magic field is not.
MagicInit ==
    InitFrom([magic : Magics, boot_hart : {1}, next_addr : NextAddrs],
             ResetMie, {[h \in Harts |-> FALSE]})

MagicSpec == MagicInit /\ [][Next]_vars

\* C14: with a boot descriptor whose magic number differs from 0x4942534f the
\* firmware halts: no hart enters its trap/resume loop with that descriptor's
\* next_addr.
C14_InvalidMagicHalts ==
    fw_dynamic_info.magic # FW_DYNAMIC_INFO_MAGIC_VALUE =>
        \A h \in Harts : ~InLoop(h)

(* ------------------------------------------------------------------ *)
(* Who calls delegate_interrupt_exception                              *)
(* ------------------------------------------------------------------ *)

\* C15: in every boot no hart calls delegate_interrupt_exception more than
\* once, every hart other than hart 0 has called it exactly once when it first
\* resumes supervisor code, and hart 0 never calls it.
C15_DelegateOnceExceptHartZero ==
    /\ \A h \in Harts : delegate_calls[h] <= 1
    /\ \A h \in Harts \ {0} : InLoop(h) => delegate_calls[h] = 1
    /\ delegate_calls[0] = 0

(* ------------------------------------------------------------------ *)
(* Who writes which CLINT flag                                         *)
(* ------------------------------------------------------------------ *)

ResumeCalled(h) == pc[h] = "resume" /\ pc'[h] = "trapped"

\* C17: after a handled SbiCall or MachineTimer suspension the driver is back
\* at the call of resume, which it can take; after resume has returned
\* Complete it is never called again on that hart, whose next step leaves
\* execute_supervisor and rust_main and ends in the cease instruction of
\* entry, where the hart stays.
C17_DriverFollowsRuntime ==
    /\ [][\A h \in Harts :
            /\ (pc[h] = "trapped" /\ pc'[h] # pc[h]) =>
                   /\ trap[h] \in {"SbiCall", "MachineTimer"} => pc'[h] = "resume"
                   /\ trap[h] = "Complete" => pc'[h] = "ceased"
            /\ trap[h] = "Complete" =>
                   /\ ~ResumeCalled(h)
                   /\ trap'[h] = "Complete"
                   /\ pc'[h] \in {"trapped", "ceased"}
            /\ pc[h] = "ceased" => pc'[h] = "ceased" /\ ctx'[h] = ctx[h]]_vars
    /\ [](\A h \in Harts :
            /\ pc[h] = "resume" => ENABLED Resume(h)
            /\ pc[h] = "ceased" => trap[h] = "Complete" /\ ~ENABLED TrapStep(h))

\* The hart has ceased after Complete, having had a MachineTimer suspension
\* (and so an SbiCall before it) handled.
C17_Witness ==
    \E h \in Harts :
        /\ pc[h] = "ceased"
        /\ trap[h] = "Complete"
        /\ "stimer" \in csr[h].mip

(* ------------------------------------------------------------------ *)
(* The machine timer suspension                                        *)
(* ------------------------------------------------------------------ *)

\* The hart has handled the MachineTimer its last resume yielded and is about
\* to call resume again.
MachineTimerHandled(h) == pc[h] = "resume" /\ trap[h] = "MachineTimer"

\* C18: when resume yields MachineTimer the handler sets mip.stimer, clears
\* mie.mtimer, leaves a0..a7 and mepc of the Supervisor Context as they were
\* at the trap and goes back to resume; mie.mtimer is clear from then until
\* an SBI call arms it again.
C18_MachineTimerForwarded ==
    /\ [](\A h \in Harts :
            MachineTimerHandled(h) =>
                /\ "stimer" \in csr[h].mip
                /\ "mtimer" \notin csr[h].mie
                /\ ctx[h] = trap_ctx[h])
    /\ [][\A h \in Harts :
            /\ (pc[h] = "trapped" /\ trap[h] = "MachineTimer" /\ pc'[h] # pc[h]) =>
                   /\ pc'[h] = "resume"
                   /\ csr'[h].mip = csr[h].mip \cup {"stimer"}
                   /\ csr'[h].mie = csr[h].mie \ {"mtimer"}
                   /\ csr'[h].mideleg = csr[h].mideleg
                   /\ csr'[h].medeleg = csr[h].medeleg
                   /\ UNCHANGED <<ctx, trap_ctx, msip>>
            /\ ("mtimer" \notin csr[h].mie /\ "mtimer" \in csr'[h].mie) =>
                   pc[h] = "trapped" /\ trap[h] = "SbiCall"]_vars

\* A MachineTimer suspension has been handled on a context with every
\* register set.
C18_Witness ==
    \E h \in Harts :
        /\ MachineTimerHandled(h)
        /\ ctx[h].a0 = MaxWord
        /\ ctx[h].a7 = MaxWord
        /\ ctx[h].mepc = MaxWord

(* ------------------------------------------------------------------ *)
(* pause and notifications sent before it                              *)
(* ------------------------------------------------------------------ *)

\* The hart is in pause between the entry clear and the break of the loop.
Waiting(h) == pc[h] = "pause_wfi"

\* A send to the hart, by rust_main or by the SBI dispatcher of any hart, has
\* been executed after the entry clear of the pause call it is in.
SentSinceClear(h) == sent_since_clear[h]

\* C19: pause does not return on a notification sent before the call began:
\* whatever the flag was at entry, after the entry clear it is set only if a
\* send to the hart has been executed since that clear, so a hart with no
\* later send finds the flag clear in every iteration of the loop and stays in
\* it, and a hart that has broken out of the loop has had such a send.
C19_NoReturnOnStaleSend ==
    /\ [](\A h \in Harts :
            /\ Waiting(h) => (mip_msoft(h) <=> SentSinceClear(h))
            /\ pc[h] = "pause_exit" => SentSinceClear(h))
    /\ [][\A h \in Harts :
            (pc[h] = "pause_wfi" /\ ~SentSinceClear(h)) => pc'[h] = "pause_wfi"]_vars

\* The first-round send reached the hart before it entered its first pause:
\* the flag was set at entry, the entry clear has erased it, and the hart goes
\* into the loop with the flag clear although a send to it has been executed.
C19_Witness ==
    \E h \in Harts :
        /\ pc[h] = "pause_wfi"
        /\ pause_calls[h] = 1
        /\ BootSends(h) = 1
        /\ ~mip_msoft(h)
        /\ ~SentSinceClear(h)

(* ------------------------------------------------------------------ *)
(* Followers and the registrations of the boot hart                    *)
(* ------------------------------------------------------------------ *)

\* The hart has constructed its Runtime: it is in its trap/resume loop.
PastBarrier(h) == InLoop(h)

\* C20: in every interleaving, a follower constructs its Runtime and enters
\* its trap/resume loop only after the boot hart has completed init_heap,
\* init_rustsbi_stdio and init_rustsbi_clint (the IPI and timer registration).
C20_FollowersAfterRegistration ==
    \A h \in Harts :
        (~IsBootHart(h) /\ PastBarrier(h)) =>
            /\ {"init_heap", "init_rustsbi_stdio", "init_rustsbi_clint"}
                   \subseteq LoggedSteps
            /\ \A i \in 1..Len(init_log) : IsBootHart(init_log[i].hart)

\* A follower is in its trap/resume loop while the boot hart is still in its
\* second notification loop.
C20_Witness ==
    \E h \in Harts, b \in Harts :
        /\ ~IsBootHart(h)
        /\ InLoop(h)
        /\ IsBootHart(b)
        /\ pc[b] = "notify2"
====
